---- MODULE Spec2Model ----
(***************************************************************************)
(* Prompt construction of the chat-prompts crate (cohere.rs, deepseek.rs)  *)
(* and the search engines of llama-core (search.rs).                       *)
(*                                                                         *)
(* A Rust String is modelled as a sequence of tokens.  A token is either   *)
(* one ordinary character ("q", "a", ...), one whitespace character (" "   *)
(* or "\n"), one of the tags "<result>" / "</result>", or one literal      *)
(* marker of a grammar.  Whitespace inside the literals of the code is     *)
(* kept as separate whitespace tokens, because str::trim acts on it.       *)
(* Option<T> is modelled as a sequence: <<>> is None, <<x>> is Some(x).    *)
(***************************************************************************)
EXTENDS Integers, Sequences, FiniteSets, TLC

VARIABLES messages, op, tools, orig, result, engine, stage, sop, sresult, trace, senv, reply

chatVars == <<messages, op, tools, orig, result>>

searchVars == <<engine, stage, sop, sresult, trace, senv, reply>>

vars == <<messages, op, tools, orig, result, engine, stage, sop, sresult, trace, senv, reply>>

-----------------------------------------------------------------------------
(* Bounds of the explored inputs *)

MaxMsgs == 3

MaxTextLen == 4

MaxParts == 3

-----------------------------------------------------------------------------
(* Strings *)

IsWhitespace(c) == c \in {" ", "\n"}

RECURSIVE TrimStart(_)
TrimStart(s) ==
    IF s = <<>> THEN <<>>
    ELSE IF IsWhitespace(Head(s)) THEN TrimStart(Tail(s))
    ELSE s

RECURSIVE TrimEnd(_)
TrimEnd(s) ==
    IF s = <<>> THEN <<>>
    ELSE IF IsWhitespace(s[Len(s)]) THEN TrimEnd(SubSeq(s, 1, Len(s) - 1))
    ELSE s

Trim(s) == TrimEnd(TrimStart(s))

None == <<>>

Some(x) == <<x>>

-----------------------------------------------------------------------------
(* Message model (endpoints::chat), as the formatters read it *)

TextContent(text) == [kind |-> "Text", text |-> text, parts |-> <<>>]

PartsContent(parts) == [kind |-> "Parts", text |-> <<>>, parts |-> parts]

NoContent == [kind |-> "None", text |-> <<>>, parts |-> <<>>]

TextPart(text) == [type |-> "text", text |-> text]

ImagePart == [type |-> "image_url", text |-> <<>>]

SystemMessage(text) ==
    [role |-> "system", content |-> TextContent(text), name |-> None, tool_calls |-> None]

UserMessage(content, name) ==
    [role |-> "user", content |-> content, name |-> name, tool_calls |-> None]

AssistantMessage(content, tool_calls) ==
    [role |-> "assistant",
     content |-> IF content = None THEN NoContent ELSE TextContent(content[1]),
     name |-> None, tool_calls |-> tool_calls]

ToolMessage(text) ==
    [role |-> "tool", content |-> TextContent(text), name |-> None, tool_calls |-> None]

(* Result<String>: Ok(prompt) or Err(PromptError) *)
Ok(prompt) == [kind |-> "Ok", detail |-> "", prompt |-> prompt]

Err(kind, detail) == [kind |-> kind, detail |-> detail, prompt |-> <<>>]

NoMessages == Err("NoMessages", "")

NoAssistantMessageUntyped == Err("Other", "")

NoAssistantMessage == Err("NoAssistantMessage", "")

-----------------------------------------------------------------------------
(* The `let content = match message.content()` block of append_user_message *)

RECURSIVE PartsText(_, _)
PartsText(parts, i) ==
    IF i > Len(parts) THEN <<>>
    ELSE IF parts[i].type = "text"
         THEN parts[i].text \o <<"\n">> \o PartsText(parts, i + 1)
         ELSE PartsText(parts, i + 1)

UserMessageContentNoNewline(message) ==
    IF message.content.kind = "Text" THEN message.content.text
    ELSE LET F[i \in 1..(Len(message.content.parts) + 1)] ==
                 IF i > Len(message.content.parts) THEN <<>>
                 ELSE IF message.content.parts[i].type = "text"
                      THEN message.content.parts[i].text \o F[i + 1]
                      ELSE F[i + 1]
         IN F[1]

UserMessageContent(message) ==
    IF message.content.kind = "Text" THEN message.content.text
    ELSE PartsText(message.content.parts, 1)

AssistantMessageContentLenient(message) ==
    IF message.content.kind = "Text" THEN Ok(message.content.text) ELSE Ok(<<>>)

(* The `let content = match message.content()` block of append_assistant_message *)
AssistantMessageContent(message) ==
    IF message.content.kind = "Text" THEN Ok(message.content.text)
    ELSE IF message.tool_calls # None THEN Ok(<<>>)
    ELSE NoAssistantMessage

-----------------------------------------------------------------------------
(* cohere.rs *)

StartOfTurn == <<"<", "|START_OF_TURN_TOKEN|>">>

EndOfTurn == <<"<|END_OF_TURN_TOKEN|>">>

CoherePreamble == <<"# Safety Preamble ... using proper grammar and spelling.">>

CohereInstructions == <<"Carefully perform the following instructions ... from document 0.">>

CohereSystemPrompt ==
    <<"<BOS_TOKEN>">> \o StartOfTurn \o <<"<|SYSTEM_TOKEN|>">> \o CoherePreamble \o EndOfTurn

CohereAppendUserMessageUntrimmed(chat_history, system_prompt, message) ==
    LET content == UserMessageContent(message) IN
    IF chat_history = <<>>
    THEN Trim(system_prompt) \o StartOfTurn \o <<"<|USER_TOKEN|>">> \o content \o EndOfTurn
    ELSE Trim(chat_history) \o StartOfTurn \o <<"<|USER_TOKEN|>">> \o content \o EndOfTurn

CohereAppendUserMessage(chat_history, system_prompt, message) ==
    LET content == UserMessageContent(message) IN
    IF chat_history = <<>>
    THEN Trim(system_prompt) \o StartOfTurn \o <<"<|USER_TOKEN|>">> \o Trim(content) \o EndOfTurn
    ELSE Trim(chat_history) \o StartOfTurn \o <<"<|USER_TOKEN|>">> \o Trim(content) \o EndOfTurn

CohereAppendAssistantMessage(chat_history, message) ==
    LET content == AssistantMessageContent(message) IN
    IF content.kind # "Ok" THEN content
    ELSE Ok(Trim(chat_history) \o StartOfTurn \o <<"<|CHATBOT_TOKEN|>">>
            \o Trim(content.prompt) \o EndOfTurn)

RegexFindUnclosed(content) ==
    LET opens == {i \in 1..Len(content) : content[i] = "<result>"}
    IN IF opens = {} THEN None
       ELSE LET i == CHOOSE x \in opens : \A y \in opens : x <= y
            IN Some([start |-> i - 1, end |-> Len(content)])

(* Regex::new(r"(?s)(<result>.*?</result>)").find(content): the leftmost     *)
(* "<result>" that has a "</result>" after it, up to the first such closing  *)
(* tag.  start and end are exclusive-end 0-based offsets as in the regex     *)
(* crate: the match is content[start..end].                                  *)
RegexFind(content) ==
    LET opens == {i \in 1..Len(content) :
                     /\ content[i] = "<result>"
                     /\ \E j \in (i + 1)..Len(content) : content[j] = "</result>"}
    IN IF opens = {} THEN None
       ELSE LET i == CHOOSE x \in opens : \A y \in opens : x <= y
                j == CHOOSE x \in (i + 1)..Len(content) :
                         /\ content[x] = "</result>"
                         /\ \A y \in (i + 1)..(x - 1) : content[y] # "</result>"
            IN Some([start |-> i - 1, end |-> j])

CohereContextMatchOnly(content, found) == SubSeq(content, found.start + 1, found.end)

(* Line 106: context = content[start..] *)
CohereContext(content, found) == SubSeq(content, found.start + 1, Len(content))

(* Line 107: content[..start] *)
CohereRealUserQuery(content, found) == SubSeq(content, 1, found.start)

RECURSIVE CohereFold(_, _, _)
CohereFold(msgs, i, prompt) ==
    IF i > Len(msgs) THEN Ok(prompt)
    ELSE IF msgs[i].role = "user"
         THEN CohereFold(msgs, i + 1, CohereAppendUserMessage(prompt, CohereSystemPrompt, msgs[i]))
    ELSE IF msgs[i].role = "assistant"
         THEN LET r == CohereAppendAssistantMessage(prompt, msgs[i]) IN
              IF r.kind # "Ok" THEN r ELSE CohereFold(msgs, i + 1, r.prompt)
    ELSE CohereFold(msgs, i + 1, prompt)

CohereFinishTwoCues(prompt, context) ==
    prompt \o StartOfTurn \o <<"<|SYSTEM_TOKEN|>">> \o context \o EndOfTurn
           \o <<"|START_OF_TURN_TOKEN|>", "<|SYSTEM_TOKEN|>">> \o CohereInstructions \o EndOfTurn
           \o StartOfTurn \o <<"<|CHATBOT_TOKEN|>">> \o StartOfTurn \o <<"<|CHATBOT_TOKEN|>">>

(* Lines 147-166: the context block, the instructions block, the cue *)
CohereFinish(prompt, context) ==
    prompt \o StartOfTurn \o <<"<|SYSTEM_TOKEN|>">> \o context \o EndOfTurn
           \o <<"|START_OF_TURN_TOKEN|>", "<|SYSTEM_TOKEN|>">> \o CohereInstructions \o EndOfTurn
           \o StartOfTurn \o <<"<|CHATBOT_TOKEN|>">>

(* CohereChatPrompt::build: the outcome and the conversation it leaves *)
CohereBuild(msgs) ==
    IF msgs = <<>> THEN [result |-> NoMessages, messages |-> msgs]
    ELSE
    LET len == Len(msgs)
        last == msgs[len]
    IN
    IF last.role # "user"
    THEN [result |-> Err("BadMessages", "The last message in the chat request is not user message."),
          messages |-> msgs]
    ELSE IF last.content.kind = "Text" /\ RegexFind(last.content.text) = None
    THEN [result |-> Err("Operation", "No match found"), messages |-> msgs]
    ELSE
    LET content == last.content.text
        isText == last.content.kind = "Text"
        context == IF isText THEN CohereContext(content, RegexFind(content)[1]) ELSE <<>>
        real_user_query == CohereRealUserQuery(content, RegexFind(content)[1])
        replaced == IF isText
                    THEN [msgs EXCEPT ![len] = UserMessage(TextContent(real_user_query), last.name)]
                    ELSE msgs
        folded == CohereFold(replaced, 1, <<>>)
    IN
    IF folded.kind # "Ok" THEN [result |-> folded, messages |-> replaced]
    ELSE [result |-> Ok(CohereFinish(folded.prompt, context)), messages |-> replaced]

-----------------------------------------------------------------------------
(* deepseek.rs: DeepseekChatPrompt *)

EndOfSentence == <<"<|end_of_sentence|>">>

DeepseekChatAppendUserMessageWithSystem(chat_history, message) ==
    LET content == UserMessageContent(message) IN
    IF chat_history = <<>>
    THEN <<"You are a helpful assistant.", "\n", "\n", "User:", " ">> \o Trim(content)
    ELSE Trim(chat_history) \o <<"User:", " ">> \o Trim(content)

DeepseekChatAppendUserMessage(chat_history, message) ==
    LET content == UserMessageContent(message) IN
    IF chat_history = <<>>
    THEN <<"User:", " ">> \o Trim(content)
    ELSE Trim(chat_history) \o <<"User:", " ">> \o Trim(content)

DeepseekChatAppendAssistantMessage(chat_history, message) ==
    LET content == AssistantMessageContent(message) IN
    IF content.kind # "Ok" THEN content
    ELSE Ok(Trim(chat_history) \o <<"\n", "\n", "Assistant:", " ">>
            \o Trim(content.prompt) \o EndOfSentence)

RECURSIVE DeepseekChatFold(_, _, _)
DeepseekChatFold(msgs, i, prompt) ==
    IF i > Len(msgs) THEN Ok(prompt)
    ELSE IF msgs[i].role = "user"
         THEN DeepseekChatFold(msgs, i + 1, DeepseekChatAppendUserMessage(prompt, msgs[i]))
    ELSE IF msgs[i].role = "assistant"
         THEN LET r == DeepseekChatAppendAssistantMessage(prompt, msgs[i]) IN
              IF r.kind # "Ok" THEN r ELSE DeepseekChatFold(msgs, i + 1, r.prompt)
    ELSE DeepseekChatFold(msgs, i + 1, prompt)

DeepseekChatBuildUnchecked(msgs) ==
    LET folded == DeepseekChatFold(msgs, 1, <<>>) IN
    IF folded.kind # "Ok" THEN folded
    ELSE Ok(folded.prompt \o <<"\n", "\n", "Assistant:">>)

DeepseekChatBuild(msgs) ==
    IF msgs = <<>> THEN NoMessages
    ELSE LET folded == DeepseekChatFold(msgs, 1, <<>>) IN
         IF folded.kind # "Ok" THEN folded
         ELSE Ok(folded.prompt \o <<"\n", "\n", "Assistant:">>)

-----------------------------------------------------------------------------
(* deepseek.rs: DeepseekCoderPrompt *)

CoderDefaultSystem == <<"You are an AI programming assistant, ... you will refuse to answer.">>

DeepseekCoderCreateSystemPromptNoDefault(message) == message.content.text

DeepseekCoderCreateSystemPrompt(message) ==
    LET content == message.content.text IN
    IF content = <<>> THEN CoderDefaultSystem ELSE content

DeepseekCoderAppendUserMessage(chat_history, system_prompt, message) ==
    LET content == UserMessageContent(message) IN
    IF chat_history = <<>>
    THEN Trim(system_prompt) \o <<"\n", "### Instruction:", "\n">> \o Trim(content)
    ELSE Trim(chat_history) \o <<"\n", "### Instruction:", "\n">> \o Trim(content)

DeepseekCoderAppendAssistantMessage(chat_history, message) ==
    LET content == AssistantMessageContent(message) IN
    IF content.kind # "Ok" THEN content
    ELSE Ok(Trim(chat_history) \o <<"\n", "### Response:", "\n">>
            \o Trim(content.prompt) \o <<"\n", "<|EOT|>">>)

RECURSIVE DeepseekCoderFold(_, _, _, _)
DeepseekCoderFold(msgs, i, prompt, system_prompt) ==
    IF i > Len(msgs) THEN Ok(prompt)
    ELSE IF msgs[i].role = "user"
         THEN DeepseekCoderFold(msgs, i + 1,
                  DeepseekCoderAppendUserMessage(prompt, system_prompt, msgs[i]), system_prompt)
    ELSE IF msgs[i].role = "assistant"
         THEN LET r == DeepseekCoderAppendAssistantMessage(prompt, msgs[i]) IN
              IF r.kind # "Ok" THEN r
              ELSE DeepseekCoderFold(msgs, i + 1, r.prompt, system_prompt)
    ELSE DeepseekCoderFold(msgs, i + 1, prompt, system_prompt)

DeepseekCoderBuildLastSystem(msgs) ==
    IF msgs = <<>> THEN NoMessages
    ELSE LET systems == {i \in 1..Len(msgs) : msgs[i].role = "system"}
             system_prompt == IF systems # {}
                              THEN DeepseekCoderCreateSystemPrompt(
                                       msgs[CHOOSE i \in systems : \A j \in systems : j <= i])
                              ELSE CoderDefaultSystem
             folded == DeepseekCoderFold(msgs, 1, <<>>, system_prompt)
         IN IF folded.kind # "Ok" THEN folded
            ELSE Ok(folded.prompt \o <<"\n", "### Response:">>)

DeepseekCoderBuild(msgs) ==
    IF msgs = <<>> THEN NoMessages
    ELSE LET system_prompt == IF msgs[1].role = "system"
                              THEN DeepseekCoderCreateSystemPrompt(msgs[1])
                              ELSE CoderDefaultSystem
             folded == DeepseekCoderFold(msgs, 1, <<>>, system_prompt)
         IN IF folded.kind # "Ok" THEN folded
            ELSE Ok(folded.prompt \o <<"\n", "### Response:">>)

-----------------------------------------------------------------------------
(* deepseek.rs: DeepseekChat2Prompt.  The token "<|begin_of_sentence|>"      *)
(* stands for the begin-of-sentence literal of the source.                   *)

BeginOfSentence == <<"<|begin_of_sentence|>">>

DeepseekChat2CreateSystemPrompt(message) ==
    LET content == message.content.text IN
    IF content = <<>> THEN BeginOfSentence \o CoderDefaultSystem
    ELSE BeginOfSentence \o content

DeepseekChat2AppendUserMessage(chat_history, system_prompt, message) ==
    LET content == UserMessageContent(message) IN
    IF chat_history = <<>>
    THEN Trim(system_prompt) \o <<"\n", "\n", "User:", " ">> \o Trim(content)
    ELSE Trim(chat_history) \o <<"User:", " ">> \o Trim(content)

DeepseekChat2AppendAssistantMessage(chat_history, message) ==
    LET content == AssistantMessageContent(message) IN
    IF content.kind # "Ok" THEN content
    ELSE Ok(Trim(chat_history) \o <<"\n", "\n", "Assistant:", " ">>
            \o Trim(content.prompt) \o EndOfSentence)

RECURSIVE DeepseekChat2Fold(_, _, _, _)
DeepseekChat2Fold(msgs, i, prompt, system_prompt) ==
    IF i > Len(msgs) THEN Ok(prompt)
    ELSE IF msgs[i].role = "user"
         THEN DeepseekChat2Fold(msgs, i + 1,
                  DeepseekChat2AppendUserMessage(prompt, system_prompt, msgs[i]), system_prompt)
    ELSE IF msgs[i].role = "assistant"
         THEN LET r == DeepseekChat2AppendAssistantMessage(prompt, msgs[i]) IN
              IF r.kind # "Ok" THEN r
              ELSE DeepseekChat2Fold(msgs, i + 1, r.prompt, system_prompt)
    ELSE DeepseekChat2Fold(msgs, i + 1, prompt, system_prompt)

DeepseekChat2Build(msgs) ==
    IF msgs = <<>> THEN NoMessages
    ELSE LET system_prompt == IF msgs[1].role = "system"
                              THEN DeepseekChat2CreateSystemPrompt(msgs[1])
                              ELSE BeginOfSentence \o CoderDefaultSystem
             folded == DeepseekChat2Fold(msgs, 1, <<>>, system_prompt)
         IN IF folded.kind # "Ok" THEN folded
            ELSE Ok(folded.prompt \o <<"\n", "\n", "Assistant:">>)

-----------------------------------------------------------------------------
(* deepseek.rs: DeepseekChat25Prompt *)

HelpfulAssistant == <<"You are a helpful Assistant.">>

DeepseekChat25CreateSystemPrompt(message) ==
    LET content == message.content.text IN
    IF content = <<>> THEN BeginOfSentence \o HelpfulAssistant
    ELSE BeginOfSentence \o content

DeepseekChat25AppendUserMessage(chat_history, system_prompt, message) ==
    LET content == UserMessageContent(message) IN
    IF chat_history = <<>>
    THEN Trim(system_prompt) \o <<"<|User|>">> \o Trim(content)
    ELSE Trim(chat_history) \o <<"<|User|>">> \o Trim(content)

DeepseekChat25AppendAssistantMessageSkipEmpty(chat_history, message) ==
    LET content == AssistantMessageContent(message) IN
    IF content.kind # "Ok" THEN content
    ELSE IF Trim(content.prompt) = <<>> THEN Ok(Trim(chat_history))
    ELSE Ok(Trim(chat_history) \o <<"<|Assistant|>">> \o Trim(content.prompt) \o EndOfSentence)

DeepseekChat25AppendAssistantMessage(chat_history, message) ==
    LET content == AssistantMessageContent(message) IN
    IF content.kind # "Ok" THEN content
    ELSE Ok(Trim(chat_history) \o <<"<|Assistant|>">> \o Trim(content.prompt) \o EndOfSentence)

RECURSIVE DeepseekChat25Fold(_, _, _, _)
DeepseekChat25Fold(msgs, i, prompt, system_prompt) ==
    IF i > Len(msgs) THEN Ok(prompt)
    ELSE IF msgs[i].role = "user"
         THEN DeepseekChat25Fold(msgs, i + 1,
                  DeepseekChat25AppendUserMessage(prompt, system_prompt, msgs[i]), system_prompt)
    ELSE IF msgs[i].role = "assistant"
         THEN LET r == DeepseekChat25AppendAssistantMessage(prompt, msgs[i]) IN
              IF r.kind # "Ok" THEN r
              ELSE DeepseekChat25Fold(msgs, i + 1, r.prompt, system_prompt)
    ELSE DeepseekChat25Fold(msgs, i + 1, prompt, system_prompt)

DeepseekChat25Build(msgs) ==
    IF msgs = <<>> THEN NoMessages
    ELSE LET system_prompt == IF msgs[1].role = "system"
                              THEN DeepseekChat25CreateSystemPrompt(msgs[1])
                              ELSE BeginOfSentence \o HelpfulAssistant
             folded == DeepseekChat25Fold(msgs, 1, <<>>, system_prompt)
         IN IF folded.kind # "Ok" THEN folded
            ELSE Ok(folded.prompt \o <<"<|Assistant|>">>)

-----------------------------------------------------------------------------
(* deepseek.rs: DeepseekToolPrompt *)

(* endpoints::chat::Tool: a function with a name and a parameter schema *)
Tool(name, parameters) == [name |-> name, parameters |-> parameters]

(* serde_json::to_string_pretty(&tool.function): one member per line, indented *)
JsonToStringPretty(function) ==
    <<"{", "\n", " ", " ", "\"name\":", " ", function.name, ",", "\n",
      " ", " ", "\"parameters\":", " ", function.parameters, "\n", "}">>

(* serde_json::to_string(tools): the compact rendering of the list *)
RECURSIVE JsonToStringFrom(_, _)
JsonToStringFrom(list, i) ==
    IF i > Len(list) THEN <<>>
    ELSE (IF i > 1 THEN <<",">> ELSE <<>>)
         \o <<"{", "\"type\":", "\"function\"", ",", "\"function\":", "{", "\"name\":",
              list[i].name, ",", "\"parameters\":", list[i].parameters, "}", "}">>
         \o JsonToStringFrom(list, i + 1)

JsonToString(list) == <<"[">> \o JsonToStringFrom(list, 1) \o <<"]">>

DeepseekToolCreateSystemPrompt(message) ==
    LET content == message.content.text IN
    IF content = <<>> THEN BeginOfSentence \o HelpfulAssistant
    ELSE BeginOfSentence \o content

ToolsHeader ==
    <<"\n", "\n", "## Tools", "\n", "\n", "### Function", "\n", "\n",
      "You have the following functions available:">>

(* The quote character stands for the backquote of the source *)
RECURSIVE ToolsList(_, _)
ToolsList(list, i) ==
    IF i > Len(list) THEN <<>>
    ELSE <<"\n", "\n", "- '", list[i].name, "':", "\n", "'''json", "\n">>
         \o JsonToStringPretty(list[i]) \o <<"\n", "'''">>
         \o ToolsList(list, i + 1)

DeepseekToolCreateSystemPromptToolSomeOnly(message, tls) ==
    LET content == message.content.text IN
    IF content = <<>>
    THEN IF tls # None
         THEN BeginOfSentence \o HelpfulAssistant \o ToolsHeader \o ToolsList(tls[1], 1)
         ELSE BeginOfSentence \o HelpfulAssistant
    ELSE IF tls # None
         THEN BeginOfSentence \o content \o ToolsHeader \o ToolsList(tls[1], 1)
         ELSE BeginOfSentence \o content

DeepseekToolCreateSystemPromptTool(message, tls) ==
    LET content == message.content.text IN
    IF content = <<>>
    THEN IF tls # None /\ tls[1] # <<>>
         THEN BeginOfSentence \o HelpfulAssistant \o ToolsHeader \o ToolsList(tls[1], 1)
         ELSE BeginOfSentence \o HelpfulAssistant
    ELSE IF tls # None /\ tls[1] # <<>>
         THEN BeginOfSentence \o content \o ToolsHeader \o ToolsList(tls[1], 1)
         ELSE BeginOfSentence \o content

DeepseekToolAppendUserMessage(chat_history, system_prompt, message) ==
    LET content == UserMessageContent(message) IN
    IF chat_history = <<>>
    THEN Trim(system_prompt) \o <<"<|User|>">> \o Trim(content)
    ELSE Trim(chat_history) \o <<"<|User|>">> \o Trim(content)

DeepseekToolAppendAssistantMessage(chat_history, message) ==
    LET content == AssistantMessageContent(message) IN
    IF content.kind # "Ok" THEN content
    ELSE Ok(Trim(chat_history) \o <<"<|Assistant|>">> \o Trim(content.prompt) \o EndOfSentence)

DeepseekToolAppendToolMessageUntrimmed(chat_history, message) ==
    Trim(chat_history) \o <<"<|tool|>">> \o message.content.text

DeepseekToolAppendToolMessage(chat_history, message) ==
    Trim(chat_history) \o <<"<|tool|>">> \o Trim(message.content.text)

(* The loop of build (with_tool = FALSE) and of build_with_tools (TRUE) *)
RECURSIVE DeepseekToolFold(_, _, _, _, _)
DeepseekToolFold(msgs, i, prompt, system_prompt, with_tool) ==
    IF i > Len(msgs) THEN Ok(prompt)
    ELSE IF msgs[i].role = "user"
         THEN DeepseekToolFold(msgs, i + 1,
                  DeepseekToolAppendUserMessage(prompt, system_prompt, msgs[i]),
                  system_prompt, with_tool)
    ELSE IF msgs[i].role = "assistant"
         THEN LET r == DeepseekToolAppendAssistantMessage(prompt, msgs[i]) IN
              IF r.kind # "Ok" THEN r
              ELSE DeepseekToolFold(msgs, i + 1, r.prompt, system_prompt, with_tool)
    ELSE IF msgs[i].role = "tool" /\ with_tool
         THEN DeepseekToolFold(msgs, i + 1, DeepseekToolAppendToolMessage(prompt, msgs[i]),
                  system_prompt, with_tool)
    ELSE DeepseekToolFold(msgs, i + 1, prompt, system_prompt, with_tool)

DeepseekToolBuildFoldsTools(msgs) ==
    IF msgs = <<>> THEN NoMessages
    ELSE LET system_prompt == IF msgs[1].role = "system"
                              THEN DeepseekToolCreateSystemPrompt(msgs[1])
                              ELSE BeginOfSentence \o HelpfulAssistant
             folded == DeepseekToolFold(msgs, 1, <<>>, system_prompt, TRUE)
         IN IF folded.kind # "Ok" THEN folded
            ELSE Ok(folded.prompt \o <<"<|Assistant|>">>)

DeepseekToolBuild(msgs) ==
    IF msgs = <<>> THEN NoMessages
    ELSE LET system_prompt == IF msgs[1].role = "system"
                              THEN DeepseekToolCreateSystemPrompt(msgs[1])
                              ELSE BeginOfSentence \o HelpfulAssistant
             folded == DeepseekToolFold(msgs, 1, <<>>, system_prompt, FALSE)
         IN IF folded.kind # "Ok" THEN folded
            ELSE Ok(folded.prompt \o <<"<|Assistant|>">>)

FunctionCallingBegin ==
    <<"<|im_start|>system\\nYou are a function calling AI model. ... Here are the available tools:">>

FunctionCallingEnd ==
    <<"Use the following pydantic model json schema for each tool call you will make: ... </tool_call><|im_end|>">>

ConciseSystem ==
    <<"<|im_start|>system", "\n", "Answer as concisely as possible.<|im_end|>">>

DeepseekToolBuildWithTools(msgs, tls) ==
    IF msgs = <<>> THEN NoMessages
    ELSE LET system_prompt ==
                 IF msgs[1].role = "system"
                 THEN DeepseekToolCreateSystemPromptTool(msgs[1], tls)
                 ELSE IF tls # None
                      THEN FunctionCallingBegin \o <<" ", "<tools>", " ">> \o JsonToString(tls[1])
                           \o <<" ", "</tools>", " ">> \o FunctionCallingEnd
                      ELSE ConciseSystem
             folded == DeepseekToolFold(msgs, 1, <<>>, system_prompt, TRUE)
         IN IF folded.kind # "Ok" THEN folded
            ELSE Ok(folded.prompt \o <<"<|Assistant|>">>)

-----------------------------------------------------------------------------
(* The inputs: the conversations and tool lists a caller passes in *)

RECURSIVE SeqsUpTo(_, _)
SeqsUpTo(S, n) ==
    IF n = 0 THEN {<<>>}
    ELSE LET shorter == SeqsUpTo(S, n - 1) IN
         shorter \cup {Append(s, x) : s \in {t \in shorter : Len(t) = n - 1}, x \in S}

(* Texts of the last user message: every string over an ordinary character, *)
(* a blank and the two tags                                                  *)
QueryTexts == SeqsUpTo({"q", " ", "<result>", "</result>"}, MaxTextLen)

Names == {None, Some("n")}

PartSeqs == SeqsUpTo({TextPart(<<"a">>), TextPart(<<" ", "b">>), ImagePart}, MaxParts)

(* Conversations of one user message, with every text and every part list *)
QueryConversations ==
    {<<UserMessage(TextContent(t), n)>> : t \in QueryTexts, n \in Names}
    \cup {<<UserMessage(PartsContent(ps), None)>> : ps \in PartSeqs}

(* Messages of every role and shape, for the longer conversations *)
SampleMessages ==
    { SystemMessage(<<>>),
      SystemMessage(<<" ", "s", " ">>),
      UserMessage(TextContent(<<" ", "q", " ">>), None),
      UserMessage(TextContent(<<" ", "q", " ", "<result>", "d", "</result>">>), Some("n")),
      UserMessage(TextContent(<<"q", "<result>", "d", "</result>", " ", "t">>), None),
      UserMessage(PartsContent(<<TextPart(<<"a">>), ImagePart, TextPart(<<"b">>)>>), None),
      AssistantMessage(Some(<<" ", "a", " ">>), None),
      AssistantMessage(Some(<<>>), Some(<<"call">>)),
      AssistantMessage(None, None),
      AssistantMessage(None, Some(<<>>)),
      AssistantMessage(None, Some(<<"call">>)),
      ToolMessage(<<" ", "r", " ">>) }

Conversations == SeqsUpTo(SampleMessages, MaxMsgs) \cup QueryConversations

ToolLists ==
    { None,
      Some(<<>>),
      Some(<<Tool("get_weather", "{schema1}")>>),
      Some(<<Tool("get_weather", "{schema1}"), Tool("get_time", "{schema2}")>>) }

-----------------------------------------------------------------------------
(* llama-core/src/search.rs                                                  *)
(*                                                                           *)
(* A text is a sequence of characters; "U+00E9" is one character whose UTF-8 *)
(* encoding has two bytes, every other character has one.  A HashMap is a    *)
(* function from its keys.  Of the fields of the engines only those that the *)
(* control flow of search reads are kept (include_answer, include_images,    *)
(* include_raw_content and search_depth only travel in the request body).    *)

MaxSizePerResult == 2

MaxResults == 1

MaxContentLen == 2

Utf8Len(c) == IF c = "U+00E9" THEN 2 ELSE 1

(* str::len: the length in bytes *)
RECURSIVE StrLen(_)
StrLen(s) == IF s = <<>> THEN 0 ELSE Utf8Len(Head(s)) + StrLen(Tail(s))

(* str::is_char_boundary *)
IsCharBoundary(s, mid) == \E n \in 0..Len(s) : StrLen(SubSeq(s, 1, n)) = mid

(* str::split_at_checked: None when mid is past the end or inside a character *)
SplitAtChecked(s, mid) ==
    IF IsCharBoundary(s, mid)
    THEN LET n == CHOOSE n \in 0..Len(s) : StrLen(SubSeq(s, 1, n)) = mid
         IN Some(<<SubSeq(s, 1, n), SubSeq(s, n + 1, Len(s))>>)
    ELSE None

(* serde_json::Value: null or a string *)
JsonNull == [type |-> "null", chars |-> <<>>]

JsonString(chars) == [type |-> "string", chars |-> chars]

(* serde_json::Value::to_string: the JSON text of the value, a string in its *)
(* quotes, non-ASCII characters as they are                                  *)
ValueToString(value) ==
    IF value.type = "null" THEN <<"n", "u", "l", "l">>
    ELSE <<"\"">> \o value.chars \o <<"\"">>

SubscriptionKey == "Ocp-Apim-Subscription-Key"

DefaultTavilyEndpoint == "https://api.tavily.com/search"

DefaultBingEndpoint == "https://api.bing.microsoft.com/v7.0/search"

(* impl Default for TavilySearch *)
TavilySearchDefault ==
    [type |-> "TavilySearch", api_key |-> "", max_search_results |-> 5,
     size_per_result |-> 300, endpoint |-> DefaultTavilyEndpoint,
     additional_headers |-> None]

(* impl Default for BingSearch *)
BingSearchDefault ==
    [type |-> "BingSearch", max_search_results |-> 5, size_per_result |-> 300,
     endpoint |-> DefaultBingEndpoint, additional_headers |-> None]

TavilySearchBuilderNew(api_key) == [TavilySearchDefault EXCEPT !.api_key = api_key]

BingSearchBuilderNew(api_key) ==
    [BingSearchDefault EXCEPT
        !.additional_headers = Some([n \in {SubscriptionKey} |-> api_key])]

(* with_max_results, with_size_per_result, with_endpoint of both builders *)
WithMaxResults(e, max_results) == [e EXCEPT !.max_search_results = max_results]

WithSizePerResult(e, size_per_result) == [e EXCEPT !.size_per_result = size_per_result]

WithEndpoint(e, endpoint) == [e EXCEPT !.endpoint = endpoint]

TavilyWithAdditionalHeaders(e, additional_headers) ==
    [e EXCEPT !.additional_headers = Some(additional_headers)]

(* HashMap::extend: the keys of both maps, the new value where both have one *)
Extend(current, more) ==
    [n \in DOMAIN current \cup DOMAIN more |->
        IF n \in DOMAIN more THEN more[n] ELSE current[n]]

BingWithAdditionalHeadersReplacing(e, additional_headers) ==
    [e EXCEPT !.additional_headers = Some(additional_headers)]

BingWithAdditionalHeaders(e, additional_headers) ==
    IF e.additional_headers = None
    THEN [e EXCEPT !.additional_headers = Some(additional_headers)]
    ELSE [e EXCEPT !.additional_headers = Some(Extend(e.additional_headers[1], additional_headers))]

(* Result<SearchOutput, LlamaCoreError> and Result<String, LlamaCoreError>,  *)
(* with the tensor a summarize call set as the input of the graph            *)
SearchOk(results) ==
    [kind |-> "Ok", detail |-> "", results |-> results, output |-> <<>>, input |-> <<>>]

SearchError(detail) ==
    [kind |-> "Search", detail |-> detail, results |-> <<>>, output |-> <<>>, input |-> <<>>]

OperationError(detail) ==
    [kind |-> "Operation", detail |-> detail, results |-> <<>>, output |-> <<>>, input |-> <<>>]

(* What a call returns, and what it did on the way: "send" for an HTTP      *)
(* request sent, "summarize" for summarize entered, "lock" for the lock of  *)
(* CHAT_GRAPHS taken, "compute" for an inference run                        *)
Outcome(res, events) == [result |-> res, trace |-> events]

(* Url::parse(&self.endpoint) *)
UrlParses(endpoint) == endpoint # "not a url"

(* HeaderMap::try_from(&HashMap<String, String>) *)
HeadersConvert(headers) == \A n \in DOMAIN headers : n # "Bad Name"

EmptyHeaders == [n \in {} |-> ""]

SearchResult(text_content) == [text_content |-> text_content]

TavilyParseRawResults(raw_results) ==
    IF raw_results.results = None
    THEN SearchError("No results returned from server")
    ELSE LET array == raw_results.results[1]
         IN SearchOk([i \in 1..Len(array) |-> SearchResult(ValueToString(array[i].content))])

BingParseRawResults(raw_results) ==
    IF raw_results.webPages = None
    THEN OperationError("no webpages found when parsing query.")
    ELSE IF raw_results.webPages[1] = None
    THEN OperationError("could not convert the value field of webPages to an array")
    ELSE LET array == raw_results.webPages[1][1]
         IN SearchOk([i \in 1..Len(array) |-> SearchResult(ValueToString(array[i].snippet))])

(* Vec::truncate *)
Truncate(results, len) == IF len < Len(results) THEN SubSeq(results, 1, len) ELSE results

(* The loop over results.iter_mut(): a result is replaced by its head when *)
(* split_at_checked returns Some, and left as it is otherwise              *)
ClipResults(results, size_per_result) ==
    [i \in 1..Len(results) |->
        LET clipped_content == SplitAtChecked(results[i].text_content, size_per_result)
        IN IF clipped_content # None THEN SearchResult(clipped_content[1][1])
           ELSE results[i]]

(* From req.send() to the end of search; parsed is parse_raw_results of the *)
(* body, read only when the body is JSON                                    *)
SendAndClean(e, response, parsed) ==
    IF response.send = "err"
    THEN Outcome(SearchError("When recieving response"), <<"send">>)
    ELSE IF response.content_length = "zero"
    THEN Outcome(SearchError("Unexpected content length: Empty response from server"), <<"send">>)
    ELSE IF response.content_length = "none"
    THEN Outcome(SearchError("Content length field not found: Content length returned None"),
                 <<"send">>)
    ELSE IF response.text = "err"
    THEN Outcome(SearchError("When accessing response body"), <<"send">>)
    ELSE IF response.json = None
    THEN Outcome(SearchError("When converting to a JSON object"), <<"send">>)
    ELSE IF parsed.kind # "Ok"
    THEN Outcome(SearchError("When calling parse_into_results"), <<"send">>)
    ELSE Outcome(SearchOk(ClipResults(Truncate(parsed.results, e.max_search_results),
                                      e.size_per_result)), <<"send">>)

RawResults(response) ==
    IF response.json = None THEN [results |-> None, webPages |-> None] ELSE response.json[1]

TavilySearchKeyUnchecked(e, response) ==
    IF ~UrlParses(e.endpoint)
    THEN Outcome(SearchError("When parsing endpoint url: Malformed endpoint url"), <<>>)
    ELSE IF ~HeadersConvert(IF e.additional_headers = None THEN EmptyHeaders
                            ELSE e.additional_headers[1])
    THEN Outcome(SearchError("On converting headers"), <<>>)
    ELSE SendAndClean(e, response, TavilyParseRawResults(RawResults(response)))

TavilySearch(e, response) ==
    IF ~UrlParses(e.endpoint)
    THEN Outcome(SearchError("When parsing endpoint url: Malformed endpoint url"), <<>>)
    ELSE IF ~HeadersConvert(IF e.additional_headers = None THEN EmptyHeaders
                            ELSE e.additional_headers[1])
    THEN Outcome(SearchError("On converting headers"), <<>>)
    ELSE IF e.api_key = ""
    THEN Outcome(SearchError("Fail to perform search. API key is empty."), <<>>)
    ELSE SendAndClean(e, response, TavilyParseRawResults(RawResults(response)))

BingSearch(e, response) ==
    IF ~UrlParses(e.endpoint)
    THEN Outcome(SearchError("When parsing endpoint url: Malformed endpoint url"), <<>>)
    ELSE IF e.additional_headers = None
            \/ SubscriptionKey \notin DOMAIN e.additional_headers[1]
    THEN Outcome(SearchError("Fail to perform search. Not found 'Ocp-Apim-Subscription-Key' in additional headers."), <<>>)
    ELSE IF ~HeadersConvert(e.additional_headers[1])
    THEN Outcome(SearchError("On converting headers"), <<>>)
    ELSE SendAndClean(e, response, BingParseRawResults(RawResults(response)))

(* SearchEngine::search of the engine's type *)
Search(e, response) ==
    IF e.type = "TavilySearch" THEN TavilySearch(e, response) ELSE BingSearch(e, response)

SummaryOf(kind, detail, output, input) ==
    [kind |-> kind, detail |-> detail, results |-> <<>>, output |-> output, input |-> input]

(* The for_each of summarize: the text content of every result, one after another *)
RECURSIVE SearchOutputString(_, _)
SearchOutputString(results, i) ==
    IF i > Len(results) THEN <<>>
    ELSE results[i].text_content \o SearchOutputString(results, i + 1)

DefaultHeadPrompt == <<"The following are search results I found on the internet:">>

DefaultTailPrompt == <<"To sum up them up:", " ">>

(* SearchEngine::summarize.  env is what the call finds outside the engine:  *)
(* the running mode, the CHAT_GRAPHS cell and what the graph does with the  *)
(* input.  expect() on a failed set_input or compute aborts the call.        *)
Summarize(results, head_prompt, tail_prompt, env) ==
    LET head == IF head_prompt = None THEN DefaultHeadPrompt ELSE head_prompt[1]
        tail == IF tail_prompt = None THEN DefaultTailPrompt ELSE tail_prompt[1]
        input == Trim(head \o <<"\n", "\n">> \o SearchOutputString(results, 1)
                      \o <<"\n", "\n">> \o tail)
    IN
    IF env.running_mode = "unset"
    THEN Outcome(OperationError("Fail to get the underlying value of RUNNING_MODE."),
                 <<"summarize">>)
    ELSE IF env.running_mode = "Embeddings"
    THEN Outcome(SearchError("Summarization is not supported in the EMBEDDINGS running mode."),
                 <<"summarize">>)
    ELSE IF env.chat_graphs = "unset"
    THEN Outcome(SearchError("Fail to get the underlying value of CHAT_GRAPHS."),
                 <<"summarize">>)
    ELSE IF env.chat_graphs = "poisoned"
    THEN Outcome(SearchError("Fail to acquire the lock of CHAT_GRAPHS."), <<"summarize">>)
    ELSE IF env.chat_graphs = "empty"
    THEN Outcome(SearchError("No available chat graph."), <<"summarize", "lock">>)
    ELSE IF env.inference = "set_input_fails"
    THEN Outcome(SummaryOf("panic", "Failed to set prompt as the input tensor", <<>>, <<>>),
                 <<"summarize", "lock">>)
    ELSE IF env.inference = "compute_fails"
    THEN Outcome(SummaryOf("panic", "Failed to complete inference", <<>>, input),
                 <<"summarize", "lock", "compute">>)
    ELSE IF env.inference = "no_output"
    THEN Outcome(SummaryOf("Backend", "get_output_buffer", <<>>, input),
                 <<"summarize", "lock", "compute">>)
    ELSE Outcome(SummaryOf("Ok", "", <<"summary">>, input), <<"summarize", "lock", "compute">>)

SearchAndSummarizeAlways(e, response, head_prompt, tail_prompt, env) ==
    LET searched == Search(e, response)
        summarized == Summarize(searched.result.results, head_prompt, tail_prompt, env)
    IN Outcome(summarized.result, searched.trace \o summarized.trace)

(* SearchEngine::search_and_summarize: self.search(input).await? and then *)
(* self.summarize on its output                                           *)
SearchAndSummarize(e, response, head_prompt, tail_prompt, env) ==
    LET searched == Search(e, response) IN
    IF searched.result.kind # "Ok" THEN searched
    ELSE LET summarized == Summarize(searched.result.results, head_prompt, tail_prompt, env)
         IN Outcome(summarized.result, searched.trace \o summarized.trace)

(* The inputs of the search engines *)

ApiKeys == {"", "k"}

Endpoints == {DefaultTavilyEndpoint, DefaultBingEndpoint, "not a url"}

HeaderMaps ==
    { EmptyHeaders,
      [n \in {"X-Other"} |-> "v"],
      [n \in {"Bad Name"} |-> "v"],
      [n \in {SubscriptionKey} |-> "v"] }

Contents == SeqsUpTo({"a", "U+00E9"}, MaxContentLen)

Item(value) == [content |-> value, snippet |-> value]

(* Response bodies: one result with every content, no content field, and  *)
(* lists of up to MaxResults + 1 results                                   *)
ItemLists ==
    {<<Item(JsonString(c))>> : c \in Contents}
        \cup {<<Item(JsonNull)>>}
        \cup SeqsUpTo({Item(JsonString(<<"a">>)), Item(JsonString(<<"U+00E9", "a", "a">>))},
                      MaxResults + 1)

JsonBodies ==
    {[results |-> Some(l), webPages |-> Some(Some(l))] : l \in ItemLists}
        \cup {[results |-> None, webPages |-> None],
              [results |-> None, webPages |-> Some(None)]}

Responses ==
    {[send |-> "ok", content_length |-> "some", text |-> "ok", json |-> Some(b)] : b \in JsonBodies}
        \cup {[send |-> "err", content_length |-> "none", text |-> "err", json |-> None],
              [send |-> "ok", content_length |-> "none", text |-> "ok", json |-> None],
              [send |-> "ok", content_length |-> "zero", text |-> "ok", json |-> None],
              [send |-> "ok", content_length |-> "some", text |-> "err", json |-> None],
              [send |-> "ok", content_length |-> "some", text |-> "ok", json |-> None]}

Prompts ==
    {[head |-> None, tail |-> None], [head |-> Some(<<"h">>), tail |-> Some(<<"t", " ">>)]}

Env(running_mode, chat_graphs, inference) ==
    [running_mode |-> running_mode, chat_graphs |-> chat_graphs, inference |-> inference]

Envs ==
    { Env("unset", "one", "ok"), Env("Embeddings", "one", "ok"), Env("Chat", "unset", "ok"),
      Env("Chat", "poisoned", "ok"), Env("Chat", "empty", "ok"), Env("Chat", "one", "ok"),
      Env("Chat", "one", "set_input_fails"), Env("Chat", "one", "compute_fails"),
      Env("Chat", "one", "no_output") }

NoEnv == Env("none", "none", "none")

NoEngine == [type |-> "none"]

NoResponse == [send |-> "none", content_length |-> "none", text |-> "none", json |-> None]

NoSearchResult ==
    [kind |-> "none", detail |-> "", results |-> <<>>, output |-> <<>>, input |-> <<>>]

NoResult == [kind |-> "none", detail |-> "", prompt |-> <<>>]

-----------------------------------------------------------------------------
(* The state machine: a caller holds a conversation and calls the builders *)

Init ==
    /\ messages \in Conversations
    /\ op = "none"
    /\ tools = None
    /\ orig = <<>>
    /\ result = NoResult
    /\ engine = NoEngine
    /\ stage = "none"
    /\ sop = "none"
    /\ sresult = NoSearchResult
    /\ trace = <<>>
    /\ senv = NoEnv
    /\ reply = NoResponse

CohereChatBuild ==
    LET r == CohereBuild(messages) IN
    /\ messages' = r.messages
    /\ result' = r.result
    /\ op' = "CohereChatPrompt::build"
    /\ orig' = messages
    /\ tools' = None
    /\ UNCHANGED searchVars

CallTakingMessages(name, outcome) ==
    /\ result' = outcome
    /\ op' = name
    /\ orig' = messages
    /\ tools' = None
    /\ messages' = <<>>
    /\ UNCHANGED searchVars

Call(name, outcome) ==
    /\ result' = outcome
    /\ op' = name
    /\ orig' = messages
    /\ tools' = None
    /\ UNCHANGED messages
    /\ UNCHANGED searchVars

DeepseekChatPromptBuild == Call("DeepseekChatPrompt::build", DeepseekChatBuild(messages))

DeepseekCoderPromptBuild == Call("DeepseekCoderPrompt::build", DeepseekCoderBuild(messages))

DeepseekChat2PromptBuild == Call("DeepseekChat2Prompt::build", DeepseekChat2Build(messages))

DeepseekChat25PromptBuild == Call("DeepseekChat25Prompt::build", DeepseekChat25Build(messages))

DeepseekToolPromptBuild == Call("DeepseekToolPrompt::build", DeepseekToolBuild(messages))

DeepseekToolPromptBuildWithTools ==
    \E tls \in ToolLists :
        /\ result' = DeepseekToolBuildWithTools(messages, tls)
        /\ op' = "DeepseekToolPrompt::build_with_tools"
        /\ orig' = messages
        /\ tools' = tls
        /\ UNCHANGED messages
        /\ UNCHANGED searchVars

Next ==
    \/ CohereChatBuild
    \/ DeepseekChatPromptBuild
    \/ DeepseekCoderPromptBuild
    \/ DeepseekChat2PromptBuild
    \/ DeepseekChat25PromptBuild
    \/ DeepseekToolPromptBuild
    \/ DeepseekToolPromptBuildWithTools

Spec == Init /\ [][Next]_vars

-----------------------------------------------------------------------------
(* The search engines: a caller configures a builder, builds the engine and *)
(* then searches and summarizes.  An engine is immutable (&self), so one    *)
(* round of calls per engine shows every outcome.                           *)

SearchInit ==
    /\ messages = <<>>
    /\ op = "none"
    /\ tools = None
    /\ orig = <<>>
    /\ result = NoResult
    /\ \/ /\ stage = "builder"
          /\ engine \in {TavilySearchBuilderNew(k) : k \in ApiKeys}
                            \cup {BingSearchBuilderNew(k) : k \in ApiKeys}
       \/ /\ stage = "default"
          /\ engine \in {TavilySearchDefault, BingSearchDefault}
    /\ sop = "none"
    /\ sresult = NoSearchResult
    /\ trace = <<>>
    /\ senv = NoEnv
    /\ reply = NoResponse

Configure(e) ==
    /\ stage = "builder"
    /\ engine' = e
    /\ UNCHANGED <<stage, sop, sresult, trace, senv, reply>>
    /\ UNCHANGED chatVars

BuilderWithMaxResults == \E n \in 0..MaxResults : Configure(WithMaxResults(engine, n))

BuilderWithSizePerResult ==
    \E n \in 0..MaxSizePerResult : Configure(WithSizePerResult(engine, n))

BuilderWithEndpoint == \E endpoint \in Endpoints : Configure(WithEndpoint(engine, endpoint))

TavilyBuilderWithAdditionalHeaders ==
    /\ engine.type = "TavilySearch"
    /\ \E h \in HeaderMaps : Configure(TavilyWithAdditionalHeaders(engine, h))

BingBuilderWithAdditionalHeaders ==
    /\ engine.type = "BingSearch"
    /\ \E h \in HeaderMaps : Configure(BingWithAdditionalHeaders(engine, h))

BuilderBuild ==
    /\ stage = "builder"
    /\ stage' = "built"
    /\ UNCHANGED <<engine, sop, sresult, trace, senv, reply>>
    /\ UNCHANGED chatVars

(* The engine was built by its builder or made by Default::default() *)
IsEngine == stage \in {"built", "default"}

Returned(name, outcome, environment, received) ==
    /\ sop' = name
    /\ reply' = received
    /\ sresult' = outcome.result
    /\ trace' = outcome.trace
    /\ senv' = environment
    /\ UNCHANGED <<engine, stage>>
    /\ UNCHANGED chatVars

EngineSearch ==
    /\ IsEngine
    /\ sop = "none"
    /\ \E r \in Responses : Returned("search", Search(engine, r), NoEnv, r)

(* summarize on the output of the search before it *)
EngineSummarize ==
    /\ IsEngine
    /\ sop = "search"
    /\ sresult.kind = "Ok"
    /\ \E p \in Prompts, environment \in Envs :
           Returned("summarize", Summarize(sresult.results, p.head, p.tail, environment),
                    environment, reply)

EngineSearchAndSummarize ==
    /\ IsEngine
    /\ sop = "none"
    /\ \E r \in Responses, p \in Prompts, environment \in Envs :
           Returned("search_and_summarize",
                    SearchAndSummarize(engine, r, p.head, p.tail, environment),
                    environment, r)

SearchNext ==
    \/ BuilderWithMaxResults
    \/ BuilderWithSizePerResult
    \/ BuilderWithEndpoint
    \/ TavilyBuilderWithAdditionalHeaders
    \/ BingBuilderWithAdditionalHeaders
    \/ BuilderBuild
    \/ EngineSearch
    \/ EngineSummarize
    \/ EngineSearchAndSummarize

SearchSpec == SearchInit /\ [][SearchNext]_vars

-----------------------------------------------------------------------------
(* Vocabulary of the properties *)

Called == op # "none"

Cohere == op = "CohereChatPrompt::build"

IsPrefix(p, s) == Len(p) <= Len(s) /\ SubSeq(s, 1, Len(p)) = p

IsSuffix(p, s) == Len(p) <= Len(s) /\ SubSeq(s, Len(s) - Len(p) + 1, Len(s)) = p

IsInfix(p, s) == \E k \in 0..(Len(s) - Len(p)) : SubSeq(s, k + 1, k + Len(p)) = p

IsTag(c) == c \in {"<result>", "</result>"}

(* A complete block: an opening tag with a closing tag somewhere after it *)
HasResultBlock(text) ==
    \E i, j \in 1..Len(text) : i < j /\ text[i] = "<result>" /\ text[j] = "</result>"

(* Position of the opening tag of the first block, and of its closing tag *)
BlockOpen(text) ==
    CHOOSE i \in 1..Len(text) :
        /\ text[i] = "<result>"
        /\ \E j \in (i + 1)..Len(text) : text[j] = "</result>"
        /\ \A k \in 1..(i - 1) : text[k] # "<result>"

BlockClose(text) ==
    CHOOSE j \in (BlockOpen(text) + 1)..Len(text) :
        /\ text[j] = "</result>"
        /\ \A k \in (BlockOpen(text) + 1)..(j - 1) : text[k] # "</result>"

SystemTurn(x) == StartOfTurn \o <<"<|SYSTEM_TOKEN|>">> \o x \o EndOfTurn

UserTurn(x) == StartOfTurn \o <<"<|USER_TOKEN|>">> \o x \o EndOfTurn

GenerationCue == StartOfTurn \o <<"<|CHATBOT_TOKEN|>">>

LastOrig == orig[Len(orig)]

LastIsUserText == orig # <<>> /\ LastOrig.role = "user" /\ LastOrig.content.kind = "Text"

(* An Assistant message with neither content nor tool calls *)
IsBareAssistant(m) == m.role = "assistant" /\ m.content.kind = "None" /\ m.tool_calls = None

HasBareAssistant == \E i \in 1..Len(orig) : IsBareAssistant(orig[i])

(* An Assistant message without content whose tool-call list is present and empty *)
IsEmptyCallsAssistant(m) ==
    m.role = "assistant" /\ m.content.kind = "None" /\ m.tool_calls = Some(<<>>)

-----------------------------------------------------------------------------
(* C1: every build, and build_with_tools with any tools argument, fails     *)
(* with NoMessages on the empty conversation.                               *)
C1_EmptyFailsNoMessages ==
    (Called /\ orig = <<>>) => (result = NoMessages /\ messages = <<>>)

C1_Witness ==
    /\ op = "DeepseekToolPrompt::build_with_tools"
    /\ orig = <<>>
    /\ tools # None /\ tools[1] # <<>>
    /\ result.kind = "NoMessages"

(* C2 as stated: whatever the formatter, a conversation holding an Assistant *)
(* message without content and without tool calls yields NoAssistantMessage. *)
C2_Original ==
    (Called /\ HasBareAssistant) => result.kind = "NoAssistantMessage"

(* C2 amended: the DeepSeek builders always yield NoAssistantMessage for     *)
(* such a conversation; CohereChatPrompt.build yields it only once its check *)
(* of the last message has passed, and before that fails with BadMessages    *)
(* (last message not a User message) or Operation (last User text without a  *)
(* result block).                                                            *)
C2_BareAssistantFails ==
    (Called /\ HasBareAssistant) =>
        IF ~Cohere THEN result.kind = "NoAssistantMessage"
        ELSE IF LastOrig.role # "user" THEN result.kind = "BadMessages"
        ELSE IF LastIsUserText /\ ~HasResultBlock(LastOrig.content.text)
             THEN result.kind = "Operation"
        ELSE result.kind = "NoAssistantMessage"

C2_Witness ==
    /\ Cohere
    /\ HasBareAssistant
    /\ LastIsUserText
    /\ result.kind = "NoAssistantMessage"

(* C3: an Assistant message without content whose tool-call list is present *)
(* but empty makes the build fail; it is never emitted as an empty turn.    *)
C3_EmptyToolCallsRejected ==
    (Called /\ \E i \in 1..Len(orig) : IsEmptyCallsAssistant(orig[i])) => result.kind # "Ok"

-----------------------------------------------------------------------------
(* C4: the content of a multi-part User message is the texts of its text    *)
(* parts, in order, each followed by a newline; other parts add nothing and *)
(* cause no failure; every formatter emits that content, trimmed, in its    *)
(* user turn.                                                               *)
RECURSIVE Lines(_)
Lines(texts) ==
    IF texts = <<>> THEN <<>>
    ELSE Head(texts).text \o <<"\n">> \o Lines(Tail(texts))

IsTextPart(p) == p.type = "text"

ExpectedContent(parts) == Lines(SelectSeq(parts, IsTextPart))

(* The user turn of a one-message conversation, as each DeepSeek grammar    *)
(* ends it with its generation cue                                           *)
ExpectedUserTurn(text) ==
    CASE op \in {"DeepseekChatPrompt::build", "DeepseekChat2Prompt::build"} ->
             <<"User:", " ">> \o text \o <<"\n", "\n", "Assistant:">>
      [] op = "DeepseekCoderPrompt::build" ->
             <<"### Instruction:", "\n">> \o text \o <<"\n", "### Response:">>
      [] OTHER -> <<"<|User|>">> \o text \o <<"<|Assistant|>">>

IsUserParts(m) == m.role = "user" /\ m.content.kind = "Parts"

C4_PartsNormalization ==
    /\ \A i \in 1..Len(orig) :
           IsUserParts(orig[i]) =>
               UserMessageContent(orig[i]) = ExpectedContent(orig[i].content.parts)
    /\ (Called /\ ~Cohere /\ Len(orig) = 1 /\ IsUserParts(orig[1])) =>
           /\ result.kind = "Ok"
           /\ IsInfix(ExpectedUserTurn(Trim(ExpectedContent(orig[1].content.parts))),
                      result.prompt)
    /\ (Cohere /\ result.kind = "Ok") =>
           \A i \in 1..(Len(orig) - 1) :
               IsUserParts(orig[i]) =>
                   IsInfix(UserTurn(Trim(ExpectedContent(orig[i].content.parts))), result.prompt)

C4_CohereWitness ==
    /\ Cohere
    /\ result.kind = "Ok"
    /\ Len(orig) = 2
    /\ IsUserParts(orig[1])
    /\ IsInfix(UserTurn(<<"a", "\n", "b">>), result.prompt)

C4_Witness ==
    /\ op = "DeepseekCoderPrompt::build"
    /\ orig = <<UserMessage(PartsContent(<<TextPart(<<"a">>), ImagePart, TextPart(<<"b">>)>>), None)>>
    /\ UserMessageContent(orig[1]) = <<"a", "\n", "b", "\n">>
    /\ result.kind = "Ok"
    /\ IsInfix(<<"a", "\n", "b", "\n", "### Response:">>, result.prompt)

-----------------------------------------------------------------------------
(* C5: CohereChatPrompt.build of one User message "Q<result>D</result>"     *)
(* succeeds; the prompt holds the grounding instructions, the block         *)
(* <result>D</result> directly inside a system turn, and Q trimmed directly *)
(* inside a user turn.                                                      *)
IsQueryWithOneBlock(text) ==
    /\ Len(text) >= 2
    /\ text[Len(text)] = "</result>"
    /\ \E k \in 1..(Len(text) - 1) :
           /\ text[k] = "<result>"
           /\ \A i \in 1..(Len(text) - 1) : i # k => ~IsTag(text[i])

C5_SingleQueryWithBlock ==
    (Cohere /\ Len(orig) = 1 /\ LastIsUserText /\ IsQueryWithOneBlock(LastOrig.content.text)) =>
        LET text == LastOrig.content.text
            k == CHOOSE i \in 1..Len(text) : text[i] = "<result>"
            Q == SubSeq(text, 1, k - 1)
            block == SubSeq(text, k, Len(text))
        IN /\ result.kind = "Ok"
           /\ IsInfix(CohereInstructions, result.prompt)
           /\ IsInfix(SystemTurn(block), result.prompt)
           /\ IsInfix(UserTurn(Trim(Q)), result.prompt)

C5_Witness ==
    /\ Cohere
    /\ orig = <<UserMessage(TextContent(<<" ", "q", " ", "<result>", "d", "</result>">>), Some("n"))>>
    /\ result.kind = "Ok"
    /\ IsInfix(UserTurn(<<"q">>), result.prompt)
    /\ IsInfix(SystemTurn(<<"<result>", "d", "</result>">>), result.prompt)

(* C6: when the last message is User plain text without a result block,     *)
(* CohereChatPrompt.build fails with an Operation error and returns no      *)
(* prompt.                                                                  *)
C6_NoBlockFails ==
    (Cohere /\ LastIsUserText /\ ~HasResultBlock(LastOrig.content.text)) =>
        /\ result.kind = "Operation"
        /\ result.prompt = <<>>

C6_Witness ==
    /\ Cohere
    /\ Len(orig) = 1
    /\ LastIsUserText
    /\ \E i \in 1..Len(LastOrig.content.text) : LastOrig.content.text[i] = "<result>"
    /\ ~HasResultBlock(LastOrig.content.text)
    /\ result.kind = "Operation"

(* C7: on a non-empty conversation CohereChatPrompt.build fails with        *)
(* BadMessages unless the last message is a User message with plain text.   *)
C7_BadMessagesUnlessUserText ==
    (Cohere /\ orig # <<>> /\ ~LastIsUserText) => result.kind = "BadMessages"

(* C8: after a successful CohereChatPrompt.build the conversation has the   *)
(* same length, all messages but the last are unchanged, and the last is a  *)
(* User message of the same name whose plain text is the original text      *)
(* before the first result block.                                           *)
C8_LastMessageRewritten ==
    (Cohere /\ result.kind = "Ok") =>
        /\ Len(messages) = Len(orig)
        /\ \A i \in 1..(Len(orig) - 1) : messages[i] = orig[i]
        /\ messages[Len(messages)].role = "user"
        /\ messages[Len(messages)].name = LastOrig.name
        /\ messages[Len(messages)].content.kind = "Text"
        /\ LastOrig.content.kind = "Text"
        /\ messages[Len(messages)].content.text =
               SubSeq(LastOrig.content.text, 1, BlockOpen(LastOrig.content.text) - 1)

-----------------------------------------------------------------------------
(* The context a prompt carries: the tokens of its second-to-last system    *)
(* turn, between <|SYSTEM_TOKEN|> and the next <|END_OF_TURN_TOKEN|>.       *)
EmittedContext(prompt) ==
    LET sys == {i \in 1..Len(prompt) : prompt[i] = "<|SYSTEM_TOKEN|>"}
        instr == CHOOSE i \in sys : \A j \in sys : j <= i
        ctx == CHOOSE i \in sys \ {instr} : \A j \in sys \ {instr} : j <= i
        stop == CHOOSE e \in (ctx + 1)..Len(prompt) :
                    /\ prompt[e] = "<|END_OF_TURN_TOKEN|>"
                    /\ \A k \in (ctx + 1)..(e - 1) : prompt[k] # "<|END_OF_TURN_TOKEN|>"
    IN SubSeq(prompt, ctx + 1, stop - 1)

(* C9 as stated: the emitted context is exactly the matched block, from its *)
(* opening tag to its closing tag; text after the closing tag is left out.  *)
C9_Original ==
    (Cohere /\ result.kind = "Ok" /\ LastIsUserText) =>
        EmittedContext(result.prompt) =
            SubSeq(LastOrig.content.text, BlockOpen(LastOrig.content.text),
                   BlockClose(LastOrig.content.text))

(* C9 amended: when the last message is plain text, the emitted context is  *)
(* everything from the opening tag of the first block to the end of the     *)
(* text, so text that follows the closing tag is part of the context.       *)
C9_ContextToEndOfText ==
    (Cohere /\ result.kind = "Ok" /\ LastIsUserText) =>
        /\ EmittedContext(result.prompt) =
               SubSeq(LastOrig.content.text, BlockOpen(LastOrig.content.text),
                      Len(LastOrig.content.text))
        /\ IsInfix(SystemTurn(SubSeq(LastOrig.content.text, BlockOpen(LastOrig.content.text),
                                     Len(LastOrig.content.text))), result.prompt)

C9_Witness ==
    /\ Cohere
    /\ result.kind = "Ok"
    /\ LastIsUserText
    /\ BlockClose(LastOrig.content.text) < Len(LastOrig.content.text)
    /\ EmittedContext(result.prompt) # SubSeq(LastOrig.content.text,
           BlockOpen(LastOrig.content.text), BlockClose(LastOrig.content.text))

(* C10: a successful CohereChatPrompt.build output is the preamble block,   *)
(* the folded turns, the context block, the grounding-instructions block    *)
(* and the generation cue, in this order, with the preamble, the context    *)
(* and the instructions each wrapped in the system-turn tokens.             *)
C10_ThreeSystemTurns ==
    (Cohere /\ result.kind = "Ok") =>
        \E turns \in {SubSeq(result.prompt, 1, k) : k \in 0..Len(result.prompt)} :
            /\ IsPrefix(<<"<BOS_TOKEN>">> \o SystemTurn(CoherePreamble), turns)
            /\ result.prompt = turns \o SystemTurn(EmittedContext(result.prompt))
                                     \o SystemTurn(CohereInstructions) \o GenerationCue

-----------------------------------------------------------------------------
(* Vocabulary of the DeepSeek properties *)

CoderBuild == op = "DeepseekCoderPrompt::build"

Chat2Build == op = "DeepseekChat2Prompt::build"

Chat25Build == op = "DeepseekChat25Prompt::build"

ToolBuild == op = "DeepseekToolPrompt::build"

ToolBuildWithTools == op = "DeepseekToolPrompt::build_with_tools"

DeepseekBuild ==
    op \in {"DeepseekChatPrompt::build", "DeepseekCoderPrompt::build",
            "DeepseekChat2Prompt::build", "DeepseekChat25Prompt::build",
            "DeepseekToolPrompt::build"}

(* The conversation without its i-th message *)
Remove(msgs, i) == SubSeq(msgs, 1, i - 1) \o SubSeq(msgs, i + 1, Len(msgs))

(* The first message that build folds (a User or an Assistant message) is a *)
(* User message                                                              *)
FirstTurnIsUser(msgs) ==
    \E i \in 1..Len(msgs) :
        /\ msgs[i].role = "user"
        /\ \A j \in 1..(i - 1) : msgs[j].role \notin {"user", "assistant"}

(* What build returns for the conversation `msgs` under the operation op *)
BuildOf(msgs) ==
    CASE op = "DeepseekChatPrompt::build" -> DeepseekChatBuild(msgs)
      [] CoderBuild -> DeepseekCoderBuild(msgs)
      [] Chat2Build -> DeepseekChat2Build(msgs)
      [] Chat25Build -> DeepseekChat25Build(msgs)
      [] ToolBuild -> DeepseekToolBuild(msgs)
      [] ToolBuildWithTools -> DeepseekToolBuildWithTools(msgs, tools)
      [] OTHER -> CohereBuild(msgs).result

-----------------------------------------------------------------------------
(* C11: coder, chat2, chat25 and tool build use the text of the first       *)
(* message when it is a System message with non-empty text, and the         *)
(* formatter's default text when that text is empty or the first message is *)
(* no System message; a later System message changes nothing.               *)
DefaultSystemText == IF CoderBuild \/ Chat2Build THEN CoderDefaultSystem ELSE HelpfulAssistant

EffectiveSystemText ==
    IF orig[1].role = "system" /\ orig[1].content.text # <<>>
    THEN orig[1].content.text
    ELSE DefaultSystemText

(* The system prompt as the grammar writes it before the first user turn *)
ExpectedPreamble ==
    IF CoderBuild THEN Trim(EffectiveSystemText) \o <<"\n", "### Instruction:", "\n">>
    ELSE IF Chat2Build
    THEN Trim(BeginOfSentence \o EffectiveSystemText) \o <<"\n", "\n", "User:", " ">>
    ELSE Trim(BeginOfSentence \o EffectiveSystemText) \o <<"<|User|>">>

C11_EffectiveSystemPrompt ==
    ((CoderBuild \/ Chat2Build \/ Chat25Build \/ ToolBuild)
        /\ result.kind = "Ok" /\ FirstTurnIsUser(orig)) =>
        IsPrefix(ExpectedPreamble, result.prompt)

C11_Witness ==
    /\ CoderBuild
    /\ result.kind = "Ok"
    /\ Len(orig) = 3
    /\ orig[1] = SystemMessage(<<>>)
    /\ orig[2] = SystemMessage(<<" ", "s", " ">>)
    /\ orig[3].role = "user"
    /\ IsPrefix(CoderDefaultSystem, result.prompt)

(* C12: for build of every DeepSeek formatter, deleting a System or Tool    *)
(* message that is not the first message leaves the outcome unchanged.      *)
C12_SystemAndToolSkipped ==
    DeepseekBuild =>
        \A i \in 2..Len(orig) :
            orig[i].role \in {"system", "tool"} => BuildOf(Remove(orig, i)) = result

C12_Witness ==
    /\ CoderBuild
    /\ result.kind = "Ok"
    /\ Len(orig) = 3
    /\ orig[1].role = "user"
    /\ orig[2] = SystemMessage(<<" ", "s", " ">>)
    /\ orig[3].role = "assistant"
    /\ BuildOf(Remove(orig, 2)) = result

(* C13: every prompt a build or build_with_tools returns ends with the      *)
(* formatter's generation cue, appended once after all turns.               *)
CueOf ==
    CASE Cohere -> StartOfTurn \o <<"<|CHATBOT_TOKEN|>">>
      [] op \in {"DeepseekChatPrompt::build", "DeepseekChat2Prompt::build"} ->
             <<"\n", "\n", "Assistant:">>
      [] CoderBuild -> <<"\n", "### Response:">>
      [] OTHER -> <<"<|Assistant|>">>

C13_EndsWithCue ==
    (Called /\ result.kind = "Ok") =>
        /\ IsSuffix(CueOf, result.prompt)
        /\ ~IsSuffix(CueOf \o CueOf, result.prompt)

C13_Witness ==
    /\ Cohere
    /\ result.kind = "Ok"
    /\ Len(orig) = 3
    /\ orig[2].role = "assistant"
    /\ IsSuffix(EndOfTurn \o StartOfTurn \o <<"<|CHATBOT_TOKEN|>">>, result.prompt)

-----------------------------------------------------------------------------
(* C14: markers per turn *)

Count(seq, token) == Cardinality({i \in 1..Len(seq) : seq[i] = token})

CountRole(msgs, role) == Cardinality({i \in 1..Len(msgs) : msgs[i].role = role})

UserMarker ==
    CASE Cohere -> "<|USER_TOKEN|>"
      [] op \in {"DeepseekChatPrompt::build", "DeepseekChat2Prompt::build"} -> "User:"
      [] CoderBuild -> "### Instruction:"
      [] OTHER -> "<|User|>"

AssistantMarker ==
    CASE Cohere -> "<|CHATBOT_TOKEN|>"
      [] op \in {"DeepseekChatPrompt::build", "DeepseekChat2Prompt::build"} -> "Assistant:"
      [] CoderBuild -> "### Response:"
      [] OTHER -> "<|Assistant|>"

AssistantEndMarker ==
    CASE Cohere -> "<|END_OF_TURN_TOKEN|>"
      [] CoderBuild -> "<|EOT|>"
      [] OTHER -> "<|end_of_sentence|>"

(* Well-formed as the data model has it: content, or a non-empty tool-call list *)
IsWellFormed(m) ==
    m.role = "assistant" => (m.content.kind = "Text" \/ (m.tool_calls # None /\ m.tool_calls[1] # <<>>))

(* What append_assistant_message accepts: content, or a tool-call list *)
HasContentOrCalls(m) ==
    m.role = "assistant" => (m.content.kind = "Text" \/ m.tool_calls # None)

EndsInWellFormedTurn ==
    /\ orig # <<>>
    /\ LastOrig.role \in {"user", "assistant"}
    /\ IsWellFormed(LastOrig)
    /\ Cohere => (LastIsUserText /\ HasResultBlock(LastOrig.content.text))

MarkersOncePerTurn ==
    /\ result.kind = "Ok"
    /\ Count(result.prompt, UserMarker) = CountRole(orig, "user")
    /\ Count(result.prompt, AssistantMarker) = CountRole(orig, "assistant") + 1
    /\ Count(result.prompt, AssistantEndMarker) = CountRole(orig, "assistant")

(* C14 as stated: for every build of a non-empty conversation whose last    *)
(* message is a well-formed User or Assistant message (for Cohere a User    *)
(* text with a result block), a prompt is returned in which the user marker *)
(* occurs once per User message, the assistant marker once per Assistant    *)
(* message plus once for the cue, and the assistant end-of-turn marker once *)
(* per Assistant message.                                                   *)
C14_Original ==
    (Called /\ ~ToolBuildWithTools /\ EndsInWellFormedTurn) => MarkersOncePerTurn

(* C14 amended: the same, provided every Assistant message of the           *)
(* conversation has content or a tool-call list; and in the Cohere grammar  *)
(* <|END_OF_TURN_TOKEN|> closes every turn, so it occurs once per User      *)
(* message, once per Assistant message and once per system turn (the        *)
(* context, the instructions, and the preamble when it is emitted).         *)
C14_MarkersPerTurn ==
    (Called /\ ~ToolBuildWithTools /\ EndsInWellFormedTurn
        /\ \A i \in 1..Len(orig) : HasContentOrCalls(orig[i])) =>
        /\ result.kind = "Ok"
        /\ Count(result.prompt, UserMarker) = CountRole(orig, "user")
        /\ Count(result.prompt, AssistantMarker) = CountRole(orig, "assistant") + 1
        /\ ~Cohere =>
               Count(result.prompt, AssistantEndMarker) = CountRole(orig, "assistant")
        /\ Cohere =>
               Count(result.prompt, "<|END_OF_TURN_TOKEN|>") =
                   CountRole(orig, "user") + CountRole(orig, "assistant") + 2
                   + (IF FirstTurnIsUser(orig) THEN 1 ELSE 0)

C14_Witness ==
    /\ Chat25Build
    /\ EndsInWellFormedTurn
    /\ Len(orig) = 3
    /\ CountRole(orig, "assistant") = 2
    /\ CountRole(orig, "user") = 1
    /\ result.kind = "Ok"
    /\ Count(result.prompt, "<|end_of_sentence|>") = 2
    /\ Count(result.prompt, "<|Assistant|>") = 3

-----------------------------------------------------------------------------
(* C15: the system prompt of the tool-calling formatter *)

(* The block of one tool: its name, then its schema in a fenced json block *)
ToolEntry(tool) ==
    <<"\n", "\n", "- '", tool.name, "':", "\n", "'''json", "\n">>
        \o JsonToStringPretty(tool) \o <<"\n", "'''">>

BaseSystemText(message) ==
    BeginOfSentence \o (IF message.content.text = <<>> THEN <<"You are a helpful Assistant.">>
                        ELSE message.content.text)

FirstFoldedIsUser(msgs) ==
    \E i \in 1..Len(msgs) :
        msgs[i].role = "user" /\ \A j \in 1..(i - 1) : msgs[j].role = "system"

(* C15: when the first message is a System message, create_system_prompt_tool *)
(* returns the base system text (the message text, or the default when it is  *)
(* empty) followed, for a supplied non-empty tool list, by the tools header   *)
(* and one block per tool in list order, each with the tool's name and the    *)
(* pretty-printed schema; for an absent or empty list it returns what         *)
(* create_system_prompt returns. That text, trimmed, opens the prompt.        *)
C15_SystemPromptWithTools ==
    (ToolBuildWithTools /\ orig # <<>> /\ orig[1].role = "system") =>
        LET sp == DeepseekToolCreateSystemPromptTool(orig[1], tools)
            base == DeepseekToolCreateSystemPrompt(orig[1])
        IN /\ base = BaseSystemText(orig[1])
           /\ IF tools # None /\ tools[1] # <<>>
              THEN LET list == tools[1]
                       e == Len(ToolEntry(list[1]))
                       off == Len(base) + Len(ToolsHeader)
                   IN /\ Len(sp) = off + Len(list) * e
                      /\ SubSeq(sp, 1, off) = base \o ToolsHeader
                      /\ \A k \in 1..Len(list) :
                             SubSeq(sp, off + (k - 1) * e + 1, off + k * e) = ToolEntry(list[k])
              ELSE sp = base
           /\ (result.kind = "Ok" /\ FirstFoldedIsUser(orig)) =>
                  IsPrefix(Trim(sp) \o <<"<|User|>">>, result.prompt)

C15_Witness ==
    /\ ToolBuildWithTools
    /\ Len(orig) = 2
    /\ orig[1].role = "system"
    /\ orig[1].content.text = <<>>
    /\ orig[2].role = "user"
    /\ tools # None
    /\ Len(tools[1]) = 2
    /\ result.kind = "Ok"
    /\ IsInfix(<<"You are a helpful Assistant.">> \o ToolsHeader \o ToolEntry(tools[1][1])
                   \o ToolEntry(tools[1][2]), result.prompt)

-----------------------------------------------------------------------------
(* C16, C17: the synthesized preamble of build_with_tools without a System message *)

HasTools == tools # None /\ tools[1] # <<>>

(* C16: build_with_tools with a non-empty tool list and a first User message *)
(* returns a prompt whose preamble contains each tool's name and the         *)
(* pretty-printed (indented, multi-line) rendering of its function schema.   *)
C16_PreamblePrettyPrinted ==
    (ToolBuildWithTools /\ HasTools /\ orig # <<>> /\ orig[1].role = "user"
        /\ result.kind = "Ok") =>
        \A k \in 1..Len(tools[1]) :
            /\ IsInfix(<<tools[1][k].name>>, result.prompt)
            /\ IsInfix(JsonToStringPretty(tools[1][k]), result.prompt)

(* C17: build_with_tools with a present but empty tool list returns what it *)
(* returns for an absent list, whether or not the first message is a System *)
(* message, and the <tools> section is emitted only for a non-empty list.   *)
C17_EmptyToolListFallsBack ==
    (ToolBuildWithTools /\ result.kind = "Ok") =>
        /\ tools = Some(<<>>) => result = DeepseekToolBuildWithTools(orig, None)
        /\ IsInfix(<<"<tools>">>, result.prompt) => HasTools

-----------------------------------------------------------------------------
(* C18: the fold of build_with_tools *)

Front(seq) == SubSeq(seq, 1, Len(seq) - 1)

(* C18: build_with_tools folds User, Assistant and Tool messages in order.   *)
(* A Tool message in last place extends what the messages before it produce  *)
(* (their prompt without the cue, trimmed) by <|tool|> and its trimmed       *)
(* content, and fails only if they fail; a prompt holds <|tool|> once per    *)
(* Tool message; deleting a Tool message never changes success into failure  *)
(* or back; deleting a System message that is not the first changes nothing. *)
C18_ToolMessagesFolded ==
    (ToolBuildWithTools /\ orig # <<>>) =>
        /\ LastOrig.role = "tool" =>
               LET before == DeepseekToolBuildWithTools(Front(orig), tools)
                   turn == <<"<|tool|>">> \o Trim(LastOrig.content.text) \o <<"<|Assistant|>">>
               IN IF Len(orig) = 1 THEN result = Ok(turn)
                  ELSE IF before.kind # "Ok" THEN result = before
                  ELSE result = Ok(Trim(Front(before.prompt)) \o turn)
        /\ result.kind = "Ok" => Count(result.prompt, "<|tool|>") = CountRole(orig, "tool")
        /\ \A i \in 1..Len(orig) :
               (orig[i].role = "tool" /\ Len(orig) > 1) =>
                   DeepseekToolBuildWithTools(Remove(orig, i), tools).kind = result.kind
        /\ \A i \in 2..Len(orig) :
               orig[i].role = "system" =>
                   DeepseekToolBuildWithTools(Remove(orig, i), tools) = result

C18_Witness ==
    /\ ToolBuildWithTools
    /\ Len(orig) = 3
    /\ orig[1].role = "user"
    /\ orig[2].role = "assistant"
    /\ LastOrig.role = "tool"
    /\ LastOrig.content.text # Trim(LastOrig.content.text)
    /\ result.kind = "Ok"
    /\ IsSuffix(<<"<|end_of_sentence|>", "<|tool|>">> \o Trim(LastOrig.content.text)
                    \o <<"<|Assistant|>">>, result.prompt)

-----------------------------------------------------------------------------
(* C19: plain build of the tool-calling formatter *)

(* C19 as stated: DeepseekToolPrompt.build returns the outcome of           *)
(* DeepseekChat25Prompt.build on the same conversation, and deleting any    *)
(* Tool message leaves that outcome unchanged.                              *)
C19_Original ==
    ToolBuild =>
        /\ result = DeepseekChat25Build(orig)
        /\ \A i \in 1..Len(orig) :
               orig[i].role = "tool" => DeepseekToolBuild(Remove(orig, i)) = result

(* C19 amended: DeepseekToolPrompt.build returns the outcome of             *)
(* DeepseekChat25Prompt.build on the same conversation; Tool messages are   *)
(* never emitted, and deleting a Tool message that is not the first message *)
(* leaves the outcome unchanged.                                            *)
C19_BuildLikeChat25 ==
    ToolBuild =>
        /\ result = DeepseekChat25Build(orig)
        /\ result.kind = "Ok" => Count(result.prompt, "<|tool|>") = 0
        /\ \A i \in 2..Len(orig) :
               orig[i].role = "tool" => DeepseekToolBuild(Remove(orig, i)) = result

C19_Witness ==
    /\ ToolBuild
    /\ Len(orig) = 3
    /\ orig[1].role = "system"
    /\ orig[1].content.text # <<>>
    /\ orig[2].role = "tool"
    /\ orig[3].role = "user"
    /\ result.kind = "Ok"
    /\ result = DeepseekChat25Build(orig)
    /\ IsPrefix(Trim(BeginOfSentence \o orig[1].content.text) \o <<"<|User|>">>, result.prompt)

-----------------------------------------------------------------------------
(* C21, C22: frame and failure outcomes *)

(* C21: after build or build_with_tools of a DeepSeek formatter, whether it *)
(* returned a prompt or a failure, the conversation is the one passed in.   *)
C21_DeepseekLeavesConversation ==
    (DeepseekBuild \/ ToolBuildWithTools) => messages = orig

C21_Witness ==
    /\ Chat25Build
    /\ Len(orig) = 3
    /\ HasBareAssistant
    /\ result = NoAssistantMessage
    /\ messages = orig

TypedFailures == {"NoMessages", "NoAssistantMessage", "BadMessages", "Operation"}

(* C22: every call returns either a prompt or one of the failures           *)
(* NoMessages, NoAssistantMessage, BadMessages, Operation, never both; the  *)
(* places where the code indexes cannot abort: an empty conversation is     *)
(* answered with NoMessages before messages[0] or messages[len - 1] is      *)
(* read, and the offsets of a found block lie within the text it slices.    *)
C22_TypedOutcomes ==
    Called =>
        /\ result.kind \in TypedFailures \cup {"Ok"}
        /\ result.kind = "Ok" => result.detail = ""
        /\ result.kind \in TypedFailures => result.prompt = <<>>
        /\ orig = <<>> => result = NoMessages
        /\ (Cohere /\ LastIsUserText /\ RegexFind(LastOrig.content.text) # None) =>
               LET found == RegexFind(LastOrig.content.text)[1]
               IN 0 <= found.start /\ found.start < found.end
                      /\ found.end <= Len(LastOrig.content.text)

C22_Witness ==
    /\ Cohere
    /\ Len(orig) = 2
    /\ orig[1].role = "assistant"
    /\ IsBareAssistant(orig[1])
    /\ LastIsUserText
    /\ HasResultBlock(LastOrig.content.text)
    /\ result = NoAssistantMessage

-----------------------------------------------------------------------------
(* C23: the system preamble at the start of the prompt *)

Occurrences(p, s) ==
    Cardinality({i \in 0..(Len(s) - Len(p)) : SubSeq(s, i + 1, i + Len(p)) = p})

(* The trimmed effective system preamble of the formatter that was called *)
EffectivePreamble ==
    CASE Cohere -> Trim(CohereSystemPrompt)
      [] CoderBuild -> Trim(EffectiveSystemText)
      [] ToolBuildWithTools ->
             IF orig[1].role = "system"
             THEN Trim(DeepseekToolCreateSystemPromptTool(orig[1], tools))
             ELSE IF tools # None THEN FunctionCallingBegin
             ELSE Trim(ConciseSystem)
      [] OTHER -> Trim(BeginOfSentence \o EffectiveSystemText)

(* C23: for Cohere and the DeepSeek coder, chat2, chat25 and tool           *)
(* formatters, a prompt returned for a conversation with at least one User  *)
(* message starts with the trimmed effective system preamble and contains   *)
(* it exactly once, whatever the order of the messages.                     *)
C23_PreambleOnceAtStart ==
    ((Cohere \/ CoderBuild \/ Chat2Build \/ Chat25Build \/ ToolBuild \/ ToolBuildWithTools)
        /\ result.kind = "Ok" /\ CountRole(orig, "user") >= 1) =>
        /\ IsPrefix(EffectivePreamble, result.prompt)
        /\ Occurrences(EffectivePreamble, result.prompt) = 1

-----------------------------------------------------------------------------
(* C24: the plain-chat formatter and the system preamble *)

PlainChatBuild == op = "DeepseekChatPrompt::build"

LeadingSystemText ==
    IF orig # <<>> /\ orig[1].role = "system" THEN Trim(orig[1].content.text) ELSE <<>>

(* C24 as stated: when the first turn is a User turn, the prompt of          *)
(* DeepseekChatPrompt.build has a system preamble before the first User:     *)
(* turn, which is the text of a leading System message when there is one.    *)
C24_Original ==
    (PlainChatBuild /\ result.kind = "Ok" /\ FirstTurnIsUser(orig)) =>
        /\ result.prompt[1] # "User:"
        /\ LeadingSystemText # <<>> => IsPrefix(LeadingSystemText, result.prompt)

(* C24 amended: DeepseekChatPrompt has no system preamble: when the first    *)
(* turn is a User turn the prompt begins with that "User: " turn, and the    *)
(* text of a leading System message appears nowhere in the prompt.           *)
C24_PlainChatHasNoPreamble ==
    (PlainChatBuild /\ result.kind = "Ok" /\ FirstTurnIsUser(orig)) =>
        /\ IsPrefix(<<"User:", " ">>, result.prompt)
        /\ LeadingSystemText # <<>> => ~IsInfix(LeadingSystemText, result.prompt)

C24_Witness ==
    /\ PlainChatBuild
    /\ Len(orig) = 2
    /\ LeadingSystemText # <<>>
    /\ orig[2].role = "user"
    /\ result.kind = "Ok"
    /\ IsPrefix(<<"User:", " ">>, result.prompt)

-----------------------------------------------------------------------------
(* C25, C26: the conversation after CohereChatPrompt.build *)

(* C25: whenever CohereChatPrompt.build returns a failure, the conversation *)
(* is exactly the one that was passed in.                                   *)
C25_FailureLeavesConversation ==
    (Cohere /\ result.kind # "Ok") => messages = orig

(* C26: a build that immediately follows a successful CohereChatPrompt.build *)
(* on the same conversation fails with the Operation error for a missing     *)
(* block and leaves the conversation as it is.                               *)
C26_SecondBuildFails ==
    (Cohere /\ result.kind = "Ok") =>
        CohereBuild(messages) =
            [result |-> Err("Operation", "No match found"), messages |-> messages]

-----------------------------------------------------------------------------
(* C27 - C30: the search engines *)

Searched == sop = "search"

SearchedAndSummarized == sop = "search_and_summarize"

HasSubscriptionKey(e) ==
    e.additional_headers # None /\ SubscriptionKey \in DOMAIN e.additional_headers[1]

NoCredentials ==
    \/ engine.type = "TavilySearch" /\ engine.api_key = ""
    \/ engine.type = "BingSearch" /\ ~HasSubscriptionKey(engine)

MissingKeyError ==
    SearchError("Fail to perform search. Not found 'Ocp-Apim-Subscription-Key' in additional headers.")

(* C27: after a successful search of TavilySearch or BingSearch the text    *)
(* content of every returned result is at most size_per_result bytes long.  *)
C27_ResultsClipped ==
    (Searched /\ sresult.kind = "Ok") =>
        \A i \in 1..Len(sresult.results) :
            StrLen(sresult.results[i].text_content) <= engine.size_per_result

(* C28: a search of a TavilySearch with an empty API key, or of a BingSearch *)
(* whose additional headers are absent or lack Ocp-Apim-Subscription-Key,    *)
(* returns a Search error and sends no request.                              *)
C28_NoRequestWithoutCredentials ==
    ((Searched \/ SearchedAndSummarized) /\ NoCredentials) =>
        /\ sresult.kind = "Search"
        /\ Count(trace, "send") = 0

C28_Witness ==
    /\ Searched
    /\ engine.type = "TavilySearch"
    /\ engine.api_key = ""
    /\ UrlParses(engine.endpoint)
    /\ engine.additional_headers = Some([n \in {"X-Other"} |-> "v"])
    /\ reply.send = "ok"
    /\ reply.json # None
    /\ sresult = SearchError("Fail to perform search. API key is empty.")
    /\ trace = <<>>

(* C29: every BingSearch that a BingSearchBuilder holds or has built, after *)
(* any sequence of builder calls, has additional headers with the key       *)
(* Ocp-Apim-Subscription-Key, and its search never returns the error of the *)
(* missing-subscription-key check.                                          *)
C29_BuilderKeepsSubscriptionKey ==
    (engine.type = "BingSearch" /\ stage \in {"builder", "built"}) =>
        /\ HasSubscriptionKey(engine)
        /\ (Searched \/ SearchedAndSummarized) => sresult # MissingKeyError

C29_Witness ==
    /\ engine.type = "BingSearch"
    /\ stage = "built"
    /\ engine.additional_headers = Some([n \in {"X-Other", SubscriptionKey} |-> "v"])
    /\ engine.max_search_results = 0
    /\ engine.size_per_result = 1
    /\ engine.endpoint = DefaultTavilyEndpoint
    /\ Searched
    /\ sresult.kind = "Ok"

(* C30: search_and_summarize searches first; when the search returns an     *)
(* error it returns that error as it is and summarize is not entered, no    *)
(* lock is taken and no inference runs; otherwise summarize follows the     *)
(* request.  In the Embeddings running mode summarize returns a Search      *)
(* error without taking the lock of the chat graphs or running an inference.*)
C30_SearchThenSummarize ==
    /\ SearchedAndSummarized =>
           LET searched == Search(engine, reply) IN
           IF searched.result.kind # "Ok"
           THEN /\ sresult = searched.result
                /\ trace = searched.trace
                /\ \A event \in {"summarize", "lock", "compute"} : Count(trace, event) = 0
           ELSE IsPrefix(<<"send", "summarize">>, trace)
    /\ (Count(trace, "summarize") = 1 /\ senv.running_mode = "Embeddings") =>
           /\ sresult = SearchError("Summarization is not supported in the EMBEDDINGS running mode.")
           /\ Count(trace, "lock") = 0
           /\ Count(trace, "compute") = 0

C30_Witness ==
    /\ SearchedAndSummarized
    /\ senv = Env("Chat", "one", "ok")
    /\ reply.send = "ok"
    /\ reply.content_length = "zero"
    /\ sresult = SearchError("Unexpected content length: Empty response from server")
    /\ trace = <<"send">>

====
